---- MODULE Spec2Model ----
(***************************************************************************)
(* Model of the ERC20 multi-token deployer (deployTokens.js): one run of   *)
(* TokenDeployer, from the constructor's environment validation to the     *)
(* process exit, against a Chain Client and a file system whose outcomes   *)
(* are nondeterministic.                                                   *)
(***************************************************************************)
EXTENDS Integers, Sequences, FiniteSets, TLC

VARIABLES
  pc,               \* position of the single thread of control
  env,              \* process.env: RPC_URL, PRIVATE_KEY, DEPLOYER_ADDRESS
  configFile,       \* the token configuration file on disk
  reportFiles,      \* deployments/deployment-<network>-<timestamp>.json
  latestAddresses,  \* deployments/latest-addresses.json
  abiSaved,         \* deployments/ERC20Token.abi.json written by this run
  clock,            \* the value new Date() yields during this run
  providerCreated,  \* this.provider / this.wallet exist
  networkInfo,      \* result of getNetworkInfo
  chainReads,       \* number of Chain Client read calls made so far
  txLog,            \* every transaction handed to the Chain Client, in order
  deployments,      \* this.deployments
  idx,              \* index of the token the deploy loop is at
  holderIdx,        \* index of the holder distributeTokens is at
  gasEstimate,      \* outcome of the estimateGas() call of the current token
  gasLimit,         \* value estimateGas(token) returned for the current token
  createGas,        \* gasLimit option passed to the last factory.deploy
  attempted,        \* indices of the tokens deployToken was called for
  failed,           \* indices of the tokens whose deployToken threw
  exitCode,         \* -1 while running, else the process exit code
  errorKind,        \* what ended the run: none, env, chain, config, compile, io
  configErrorAt,    \* index of the entry validateTokenConfig threw at
  reportWrites,     \* number of report files written by this run
  mapWrites         \* number of times latest-addresses.json was written

\* one invocation of the interaction CLI (interactWithTokens.js)
VARIABLES
  cliPc,            \* "start", "run" or "done"
  cliEnvOk,         \* process.env holds a usable PRIVATE_KEY
  cliArgv,          \* [command, args]: process.argv[2] and process.argv.slice(3)
  cliMapFile,       \* deployments/latest-addresses.json as the CLI finds it
  cliTokens,        \* this.tokens
  cliTodo,          \* the awaited steps the running command has still to make
  cliRole,          \* roleHash / MINTER_ROLE as the command holds it
  cliHasRole,       \* what hasRole(MINTER_ROLE, wallet) returned: unknown, true, false
  cliCalls,         \* every Chain Client call made, in order
  cliExit,          \* -1 while running, else the process exit code
  cliError,         \* the error that ended the invocation, "none" if none
  cliOut            \* what was printed last: usage, help, error, result

\* one run of the verification script (verifyContracts.js)
VARIABLES
  vPc,              \* position of the verification run
  vApiKey,          \* process.env.ETHERSCAN_API_KEY is set
  vDir,             \* names of the files in deployments/
  vRecords,         \* the deployments every report file of vDir holds
  vReport,          \* the report loadDeploymentReport returned
  vIdx,             \* index of the record verifyAll is at
  vPolls,           \* status polls made for the current record (i of the loop)
  vLastPoll,        \* answer of the last status poll of the current record
  vSawError,        \* a status poll of the current record threw
  vResults,         \* results: the lists verified and failed
  vOutcomes,        \* per record, how its verifyContract call ended
  vPending,         \* 'pending' answers the status endpoint gave for the current record
  vExit,            \* -1 while running, else the process exit code
  vSaved            \* verification-report.json was written

\* the scaling of the amounts of one token definition
VARIABLES
  uPc,              \* "start", "supply" or "done"
  uToken,           \* the token definition
  uSupplyWei,       \* initialSupplyWei of deployToken
  uHolderWei        \* amount of distributeTokens, for the first holder

\* the constructor arguments of one token, from the estimate to the verifier
VARIABLES
  aPc,              \* "start", "estimated", "recorded", "encoded" or "done"
  aToken,           \* the token definition as tokens.json holds it
  aEstimateArgs,    \* arguments of getDeployTransaction in estimateGas
  aDeployArgs,      \* arguments of factory.deploy in deployToken
  aRecord,          \* the deployment record pushed for the token
  aEncoded          \* constructorArguements as the verifier submits them

deployerVars ==
  <<pc, env, configFile, reportFiles, latestAddresses, abiSaved, clock,
    providerCreated, networkInfo, chainReads, txLog, deployments, idx,
    holderIdx, gasEstimate, gasLimit, createGas, attempted, failed,
    exitCode, errorKind, configErrorAt, reportWrites, mapWrites>>

cliVars == <<cliPc, cliEnvOk, cliArgv, cliMapFile, cliTokens, cliTodo, cliRole,
             cliHasRole, cliCalls, cliExit, cliError, cliOut>>

verifierVars == <<vPc, vApiKey, vDir, vRecords, vReport, vIdx, vPolls,
                  vLastPoll, vSawError, vResults, vOutcomes, vPending,
                  vExit, vSaved>>

unitVars == <<uPc, uToken, uSupplyWei, uHolderWei>>

argVars == <<aPc, aToken, aEstimateArgs, aDeployArgs, aRecord, aEncoded>>

vars == <<deployerVars, cliVars, verifierVars, unitVars, argVars>>

(***************************************************************************)
(* Bounds.                                                                 *)
(***************************************************************************)
MaxTokens == 3
MaxHolders == 2

(***************************************************************************)
(* Strings that are compared character-wise are sequences of characters.   *)
(***************************************************************************)
LowerChar(c) ==
  CASE c = "A" -> "a"
    [] c = "B" -> "b"
    [] c = "C" -> "c"
    [] c = "D" -> "d"
    [] OTHER -> c

\* String.prototype.toLowerCase
ToLowerCase(s) == [i \in DOMAIN s |-> LowerChar(s[i])]

AddressesMatchExact(derived, configured) == derived = configured

\* the comparison of validateEnvironment, line 383
AddressesMatch(derived, configured) ==
  ToLowerCase(derived) = ToLowerCase(configured)


(***************************************************************************)
(* Environment (.env).  An unset variable and an empty one are both falsy. *)
(***************************************************************************)
Unset == <<>>

\* PRIVATE_KEY values: two usable keys, one of the wrong length or prefix,
\* one of the right shape that is no valid key (new ethers.Wallet throws)
GoodKeys == {"key1", "key2"}
ShapedKeys == GoodKeys \cup {"notakey"}
PrivateKeys == {"", "short"} \cup ShapedKeys

\* wallet.address: the checksummed (mixed-case) address derived from the key
WalletAddress(key) == IF key = "key1" THEN <<"a", "B">> ELSE <<"c", "D">>

DeployerAddresses == {Unset, <<"a", "B">>, <<"A", "b">>, <<"a", "b">>, <<"c", "D">>}

Envs == [RPC_URL : {"", "http://rpc"},
         PRIVATE_KEY : PrivateKeys,
         DEPLOYER_ADDRESS : DeployerAddresses]

GoodEnv == [RPC_URL |-> "http://rpc", PRIVATE_KEY |-> "key1",
            DEPLOYER_ADDRESS |-> <<"a", "b">>]

\* validateEnvironment: "ok", "exit" (process.exit(1)) or "throw" (the Wallet
\* constructor rejects the key; main().catch exits with 1)
validateEnvironment(e) ==
  IF e.RPC_URL = "" \/ e.PRIVATE_KEY = "" \/ e.DEPLOYER_ADDRESS = Unset
    THEN "exit"
  ELSE IF e.PRIVATE_KEY \notin ShapedKeys
    THEN "exit"
  ELSE IF e.PRIVATE_KEY \notin GoodKeys
    THEN "throw"
  ELSE IF ~AddressesMatch(WalletAddress(e.PRIVATE_KEY), e.DEPLOYER_ADDRESS)
    THEN "exit"
  ELSE "ok"

(***************************************************************************)
(* Token configuration (tokens.json).                                      *)
(***************************************************************************)
RequiredFields == {"name", "symbol", "decimals", "initialSupply"}
MaxDecimals == 18

\* ethers.isAddress
isAddress(a) == a \in {"0xH1", "0xH2", "0xH3", "0xH4"}

Holder(i) == [address |-> IF i % 2 = 1 THEN "0xH1" ELSE "0xH2", amount |-> "5"]

Token(present, name, symbol, decimals, mintable, holders) ==
  [present |-> present, name |-> name, symbol |-> symbol,
   decimals |-> decimals, initialSupply |-> "1000",
   mintable |-> mintable, burnable |-> FALSE, pausable |-> FALSE,
   initialHolders |-> holders]

TokA == Token(RequiredFields, "Alpha", "A", 18, TRUE, <<>>)
TokB == Token(RequiredFields, "Beta", "B", 0, FALSE,
              [i \in 1..MaxHolders |-> Holder(i)])
TokA2 == Token(RequiredFields, "Alpha Two", "A", 6, FALSE, <<Holder(1)>>)
TokNoSupply == Token(RequiredFields \ {"initialSupply"}, "Gamma", "G", 18,
                     FALSE, <<>>)
TokDec19 == Token(RequiredFields, "Delta", "D", 19, FALSE, <<>>)
TokDecNeg == Token(RequiredFields, "Epsilon", "E", -1, FALSE, <<>>)
TokBadHolder == Token(RequiredFields, "Zeta", "Z", 18, FALSE,
                      <<Holder(1), [address |-> "nothex", amount |-> "5"]>>)

TokenPool == {TokA, TokB, TokA2, TokNoSupply, TokDec19, TokDecNeg, TokBadHolder}

TokenLists == UNION {[1..n -> TokenPool] : n \in 0..MaxTokens}

\* kind: "missing" (no file), "garbage" (JSON.parse throws) or "json"
ConfigFile(kind, network, coe, tokens) ==
  [kind |-> kind, network |-> network, continueOnError |-> coe,
   tokens |-> tokens]

ConfigFiles ==
  {ConfigFile("missing", "", FALSE, <<>>), ConfigFile("garbage", "", FALSE, <<>>)}
  \cup {ConfigFile("json", nw, coe, ts) :
          nw \in {"", "testnet"}, coe \in BOOLEAN, ts \in TokenLists}

validateTokenConfigLoose(token) ==
  IF RequiredFields \ token.present # {} THEN "missing"
  ELSE IF token.decimals < 0 \/ token.decimals > MaxDecimals THEN "decimals"
  ELSE "ok"

\* validateTokenConfig: "ok", or which check threw
validateTokenConfig(token) ==
  IF RequiredFields \ token.present # {} THEN "missing"
  ELSE IF token.decimals < 0 \/ token.decimals > MaxDecimals THEN "decimals"
  ELSE IF \E i \in DOMAIN token.initialHolders :
            ~isAddress(token.initialHolders[i].address) THEN "holder"
  ELSE "ok"

FirstRejectedHeadOnly(tokens) ==
  IF tokens # <<>> /\ validateTokenConfig(tokens[1]) # "ok" THEN 1 ELSE 0

\* the loop of loadTokenConfig: 0 when every entry passes, else the index of
\* the entry validateTokenConfig throws at
FirstRejected(tokens) ==
  IF \A i \in DOMAIN tokens : validateTokenConfig(tokens[i]) = "ok" THEN 0
  ELSE CHOOSE i \in DOMAIN tokens :
         /\ validateTokenConfig(tokens[i]) # "ok"
         /\ \A j \in 1..(i - 1) : validateTokenConfig(tokens[j]) = "ok"


(***************************************************************************)
(* Gas estimation.                                                         *)
(***************************************************************************)
DefaultGasLimit == 3000000
BufferPercent == 120

\* what factory.getDeployTransaction(...).estimateGas() can yield: a value
\* (one of them not a multiple of 5, so that the division truncates) or "fail"
GasEstimates == {7, 1825420}
EstimateFailed == [ok |-> FALSE, gas |-> 0]
EstimateOutcomes == {[ok |-> TRUE, gas |-> g] : g \in GasEstimates}
                      \cup {EstimateFailed}

estimateGasNoBuffer(outcome) ==
  IF outcome.ok THEN outcome.gas ELSE DefaultGasLimit

\* estimateGas(token), from the outcome of the Chain Client call
estimateGas(outcome) ==
  IF outcome.ok THEN (outcome.gas * BufferPercent) \div 100
  ELSE DefaultGasLimit

(***************************************************************************)
(* Transactions and records.                                               *)
(***************************************************************************)
\* a transaction handed to the Chain Client: status is "rejected" (the send
\* threw), "pending", "confirmed" or "failed" (the wait threw)
Tx(token, kind, holder, status) ==
  [token |-> token, kind |-> kind, holder |-> holder, status |-> status]

SetLastStatus(log, status) ==
  [log EXCEPT ![Len(log)] = [@ EXCEPT !.status = status]]

WaitNotAwaited(log, ok) == log

\* await waitForDeployment() / await tx.wait(): returns once the transaction
\* is confirmed, throws when it failed
Wait(log, ok) == SetLastStatus(log, IF ok THEN "confirmed" ELSE "failed")

Tokens == configFile.tokens
CurrentToken == Tokens[idx]

\* the object pushed at lines 571-583; def is the index of the definition the
\* record was made from, address and deploymentTx the position of the creation
\* transaction in txLog, which stands for the address and hash the chain gave
DeploymentRecord(i, token, txPos) ==
  [def |-> i, name |-> token.name, symbol |-> token.symbol,
   address |-> txPos, decimals |-> token.decimals,
   initialSupply |-> token.initialSupply, mintable |-> token.mintable,
   burnable |-> token.burnable, pausable |-> token.pausable,
   deploymentTx |-> txPos, blockNumber |-> txPos]

\* position in log of the creation transaction of token i
CreatePos(log, i) ==
  CHOOSE p \in DOMAIN log : log[p].token = i /\ log[p].kind = "create"

PutAddressKeepFirst(map, d) ==
  IF \E e \in map : e.symbol = d.symbol THEN map
  ELSE map \cup {[symbol |-> d.symbol, address |-> d.address,
                  decimals |-> d.decimals]}

\* addressMap[d.symbol] = {address, decimals}: an assignment to an object key
PutAddress(map, d) ==
  {e \in map : e.symbol # d.symbol}
    \cup {[symbol |-> d.symbol, address |-> d.address, decimals |-> d.decimals]}

RECURSIVE BuildAddressMap(_)
\* the forEach of saveDeploymentReport, lines 637-643
BuildAddressMap(deps) ==
  IF deps = <<>> THEN {}
  ELSE PutAddress(BuildAddressMap(SubSeq(deps, 1, Len(deps) - 1)),
                  deps[Len(deps)])

ReportNameNoTimestamp(network) == [network |-> network, timestamp |-> 0]

\* deployment-${network}-${timestamp}.json, lines 623-624
ReportName(network) == [network |-> network, timestamp |-> clock]

Report(network) ==
  [timestamp |-> clock, network |-> network,
   deployer |-> WalletAddress(env.PRIVATE_KEY), deployments |-> deployments]

\* fs.writeFileSync(reportPath, ...): creates the file or replaces its content
WriteReport(files, network) ==
  {f \in files : f.name # ReportName(network)}
    \cup {[name |-> ReportName(network), body |-> Report(network)]}

\* what an earlier run left in deployments/ (its contract has address 0, an
\* address no transaction of this run yields)
PriorReport ==
  [name |-> [network |-> "testnet", timestamp |-> 0],
   body |-> [timestamp |-> 0, network |-> "testnet", deployer |-> <<"a", "B">>,
             deployments |-> <<DeploymentRecord(1, TokA2, 0)>>]]
PriorAddresses == BuildAddressMap(PriorReport.body.deployments)


(***************************************************************************)
(* The run.                                                                *)
(***************************************************************************)
ChainNetworkName == "sepolia"

\* a || b on strings
OrElse(a, b) == IF a = "" THEN b ELSE a

\* the interaction CLI has not been started
CliIdle ==
  /\ cliPc = "idle"
  /\ cliEnvOk = TRUE
  /\ cliArgv = [command |-> "", args |-> <<>>]
  /\ cliMapFile = [kind |-> "missing", entries |-> {}]
  /\ cliTokens = {}
  /\ cliTodo = <<>>
  /\ cliRole = ""
  /\ cliHasRole = "unknown"
  /\ cliCalls = <<>>
  /\ cliExit = -1
  /\ cliError = "none"
  /\ cliOut = "none"

\* the verification script has not been started
VerifierIdle ==
  /\ vPc = "idle"
  /\ vApiKey = TRUE
  /\ vDir = {}
  /\ vRecords = <<>>
  /\ vReport = [found |-> FALSE, name |-> <<>>, deployments |-> <<>>]
  /\ vIdx = 0
  /\ vPolls = 0
  /\ vLastPoll = "none"
  /\ vSawError = FALSE
  /\ vResults = [verified |-> <<>>, failed |-> <<>>]
  /\ vOutcomes = <<>>
  /\ vPending = 0
  /\ vExit = -1
  /\ vSaved = FALSE

\* no amount is being scaled
UnitsIdle ==
  /\ uPc = "idle"
  /\ uToken = [decimals |-> 0,
               initialSupply |-> [whole |-> <<0>>, frac |-> <<>>],
               holderAmount |-> [whole |-> <<0>>, frac |-> <<>>]]
  /\ uSupplyWei = [ok |-> FALSE, digits |-> <<>>]
  /\ uHolderWei = [ok |-> FALSE, digits |-> <<>>]

\* no constructor arguments are being built
ArgsIdle ==
  /\ aPc = "idle"
  /\ aToken = [name |-> "", symbol |-> "", decimals |-> 0,
               initialSupply |-> [whole |-> <<0>>, frac |-> <<>>],
               mintable |-> "absent", burnable |-> "absent",
               pausable |-> "absent"]
  /\ aEstimateArgs = <<>>
  /\ aDeployArgs = <<>>
  /\ aRecord = [pushed |-> FALSE]
  /\ aEncoded = [prefix |-> "", words |-> <<>>]

InitRun ==
  /\ pc = "start"
  /\ clock = 1
  \* deployments/ holds the artifacts of an earlier run
  /\ reportFiles = {PriorReport}
  /\ latestAddresses = [exists |-> TRUE, entries |-> PriorAddresses]
  /\ abiSaved = FALSE
  /\ providerCreated = FALSE
  /\ networkInfo = [name |-> ""]
  /\ chainReads = 0
  /\ txLog = <<>>
  /\ deployments = <<>>
  /\ idx = 0
  /\ holderIdx = 0
  /\ gasEstimate = EstimateFailed
  /\ gasLimit = 0
  /\ createGas = 0
  /\ attempted = {}
  /\ failed = {}
  /\ exitCode = -1
  /\ errorKind = "none"
  /\ configErrorAt = 0
  /\ reportWrites = 0
  /\ mapWrites = 0

\* a run under a valid environment, for every configuration file
Init ==
  /\ InitRun
  /\ env = GoodEnv
  /\ configFile \in ConfigFiles
  /\ CliIdle
  /\ VerifierIdle
  /\ UnitsIdle
  /\ ArgsIdle

\* the deployer has not been started
DeployerIdle ==
  /\ InitRun
  /\ env = GoodEnv
  /\ configFile = ConfigFile("missing", "", FALSE, <<>>)

\* what the deployer reads and never writes; the other scripts are separate
\* processes, whose state no step of the deployer touches
inputs == <<env, configFile, clock, cliVars, verifierVars, unitVars, argVars>>
files == <<reportFiles, latestAddresses, reportWrites, mapWrites>>
locals == <<holderIdx, gasEstimate, gasLimit, createGas>>
loop == <<deployments, idx, attempted, failed>>

\* process.exit(code)
Exit(code, kind) ==
  /\ pc' = "done"
  /\ exitCode' = code
  /\ errorKind' = kind

ShouldContinueAlways(config) == TRUE

\* the test of the catch block, line 675
ShouldContinue(config) == config.continueOnError

NeedsDistributionNever(token) == FALSE

\* the test of line 566
NeedsDistribution(token) == Len(token.initialHolders) > 0

NextHolderSkip(h) == h + 2

\* the for-of loop of distributeTokens, line 591: the holder after holder h
NextHolder(h) == h + 1

\* the head of the for loop of deploy() after token i: deployToken is entered
\* for token i + 1, or the loop is left
Continue(i) ==
  /\ holderIdx' = 0
  /\ gasEstimate' = EstimateFailed
  /\ gasLimit' = 0
  /\ createGas' = 0
  /\ IF i < Len(Tokens)
       THEN /\ idx' = i + 1
            /\ attempted' = attempted \cup {i + 1}
            /\ pc' = "estimateGas"
       ELSE /\ pc' = "summary"
            /\ UNCHANGED <<idx, attempted>>

\* deployToken returns: lines 571-585, then the loop goes on
Push(log) ==
  /\ deployments' =
       Append(deployments, DeploymentRecord(idx, CurrentToken, CreatePos(log, idx)))
  /\ Continue(idx)
  /\ UNCHANGED <<failed, exitCode, errorKind>>

CatchKeepRecord ==
  /\ failed' = failed \cup {idx}
  /\ deployments' =
       IF \E p \in DOMAIN txLog' : txLog'[p] = Tx(idx, "create", 0, "confirmed")
       THEN Append(deployments,
                   DeploymentRecord(idx, CurrentToken, CreatePos(txLog', idx)))
       ELSE deployments
  /\ IF ShouldContinue(configFile)
       THEN Continue(idx) /\ UNCHANGED <<exitCode, errorKind>>
       ELSE Exit(1, "chain") /\ UNCHANGED <<idx, attempted, locals>>

\* deployToken threw: the catch block of lines 673-680
Catch ==
  /\ failed' = failed \cup {idx}
  /\ UNCHANGED deployments
  /\ IF ShouldContinue(configFile)
       THEN Continue(idx) /\ UNCHANGED <<exitCode, errorKind>>
       ELSE Exit(1, "chain") /\ UNCHANGED <<idx, attempted, locals>>

\* new TokenDeployer(): lines 356-363
Constructor ==
  /\ pc = "start"
  /\ IF validateEnvironment(env) = "ok"
       THEN /\ providerCreated' = TRUE
            /\ pc' = "getNetworkInfo"
            /\ UNCHANGED <<exitCode, errorKind>>
       ELSE /\ Exit(1, "env")
            /\ UNCHANGED providerCreated
  /\ UNCHANGED <<inputs, files, locals, loop, abiSaved, networkInfo,
                 chainReads, txLog, configErrorAt>>

\* getNetworkInfo: provider.getNetwork() then provider.getBalance()
GetNetworkInfo ==
  /\ pc = "getNetworkInfo"
  /\ \E outcome \in {"ok", "failNetwork", "failBalance"} :
       /\ chainReads' = chainReads + (IF outcome = "failNetwork" THEN 1 ELSE 2)
       /\ IF outcome = "ok"
            THEN /\ networkInfo' = [name |-> OrElse(ChainNetworkName, "unknown")]
                 /\ pc' = "loadConfig"
                 /\ UNCHANGED <<exitCode, errorKind>>
            ELSE /\ Exit(1, "chain")
                 /\ UNCHANGED networkInfo
  /\ UNCHANGED <<inputs, files, locals, loop, abiSaved, providerCreated,
                 txLog, configErrorAt>>

\* loadTokenConfig
LoadTokenConfig ==
  /\ pc = "loadConfig"
  /\ IF configFile.kind # "json"
       THEN Exit(1, "config") /\ UNCHANGED configErrorAt
       ELSE /\ configErrorAt' = FirstRejected(Tokens)
            /\ IF configErrorAt' # 0
                 THEN Exit(1, "config")
                 ELSE pc' = "compile" /\ UNCHANGED <<exitCode, errorKind>>
  /\ UNCHANGED <<inputs, files, locals, loop, abiSaved, providerCreated,
                 networkInfo, chainReads, txLog>>

\* compileContract and saveABI, then the first turn of the loop
CompileContract ==
  /\ pc = "compile"
  /\ \E outcome \in {"ok", "error", "ioError"} :
       IF outcome = "ok"
         THEN /\ abiSaved' = TRUE
              /\ Continue(0)
              /\ UNCHANGED <<exitCode, errorKind>>
         ELSE /\ Exit(1, IF outcome = "error" THEN "compile" ELSE "io")
              /\ UNCHANGED <<abiSaved, idx, attempted, locals>>
  /\ UNCHANGED <<inputs, files, deployments, failed, providerCreated,
                 networkInfo, chainReads, txLog, configErrorAt>>

\* estimateGas(token), called at line 536
EstimateGas ==
  /\ pc = "estimateGas"
  /\ \E outcome \in EstimateOutcomes :
       /\ gasEstimate' = outcome
       /\ gasLimit' = estimateGas(outcome)
  /\ chainReads' = chainReads + 1
  /\ pc' = "factoryDeploy"
  /\ UNCHANGED <<inputs, files, loop, holderIdx, createGas, abiSaved,
                 providerCreated, networkInfo, txLog, exitCode, errorKind,
                 configErrorAt>>

\* factory.deploy(..., {gasLimit}), lines 540-551
FactoryDeploy ==
  /\ pc = "factoryDeploy"
  /\ \E ok \in BOOLEAN :
       IF ok
         THEN /\ txLog' = Append(txLog, Tx(idx, "create", 0, "pending"))
              /\ createGas' = gasLimit
              /\ pc' = "waitForDeployment"
              /\ UNCHANGED <<loop, holderIdx, gasEstimate, gasLimit,
                             exitCode, errorKind>>
         ELSE /\ txLog' = Append(txLog, Tx(idx, "create", 0, "rejected"))
              /\ Catch
  /\ UNCHANGED <<inputs, files, abiSaved, providerCreated, networkInfo,
                 chainReads, configErrorAt>>

\* waitForDeployment, getAddress and the receipt, lines 556-568
WaitForDeployment ==
  /\ pc = "waitForDeployment"
  /\ \E ok \in BOOLEAN :
       /\ txLog' = Wait(txLog, ok)
       /\ IF ~ok THEN Catch
          ELSE IF NeedsDistribution(CurrentToken)
            THEN /\ holderIdx' = 1
                 /\ pc' = "transfer"
                 /\ UNCHANGED <<loop, gasEstimate, gasLimit, createGas,
                                exitCode, errorKind>>
            ELSE Push(txLog')
  /\ UNCHANGED <<inputs, files, abiSaved, providerCreated, networkInfo,
                 chainReads, configErrorAt>>

\* distributeTokens: contract.transfer(holder.address, amount), line 595
Transfer ==
  /\ pc = "transfer"
  /\ \E ok \in BOOLEAN :
       IF ok
         THEN /\ txLog' = Append(txLog, Tx(idx, "transfer", holderIdx, "pending"))
              /\ pc' = "txWait"
              /\ UNCHANGED <<loop, locals, exitCode, errorKind>>
         ELSE /\ txLog' = Append(txLog, Tx(idx, "transfer", holderIdx, "rejected"))
              /\ Catch
  /\ UNCHANGED <<inputs, files, abiSaved, providerCreated, networkInfo,
                 chainReads, configErrorAt>>

\* distributeTokens: tx.wait(), line 596, then the next holder or the push
TxWait ==
  /\ pc = "txWait"
  /\ \E ok \in BOOLEAN :
       /\ txLog' = Wait(txLog, ok)
       /\ IF ~ok THEN Catch
          ELSE IF holderIdx < Len(CurrentToken.initialHolders)
            THEN /\ holderIdx' = NextHolder(holderIdx)
                 /\ pc' = "transfer"
                 /\ UNCHANGED <<loop, gasEstimate, gasLimit, createGas,
                                exitCode, errorKind>>
            ELSE Push(txLog')
  /\ UNCHANGED <<inputs, files, abiSaved, providerCreated, networkInfo,
                 chainReads, configErrorAt>>

\* saveDeploymentReport(network); a writeFileSync may throw
saveDeploymentReport(network, outcome) ==
  /\ IF outcome = "failReport"
       THEN UNCHANGED <<reportFiles, reportWrites>>
       ELSE /\ reportFiles' = WriteReport(reportFiles, network)
            /\ reportWrites' = reportWrites + 1
  /\ IF outcome = "ok"
       THEN /\ latestAddresses' =
                 [exists |-> TRUE, entries |-> BuildAddressMap(deployments)]
            /\ mapWrites' = mapWrites + 1
       ELSE UNCHANGED <<latestAddresses, mapWrites>>

\* the summary of deploy(), lines 683-708, and the normal end of the process
Summary ==
  /\ pc = "summary"
  /\ IF Len(deployments) > 0
       THEN \E outcome \in {"ok", "failReport", "failAddresses"} :
              /\ saveDeploymentReport(
                   OrElse(configFile.network, networkInfo.name), outcome)
              /\ IF outcome = "ok" THEN Exit(0, "none") ELSE Exit(1, "io")
       ELSE /\ UNCHANGED files
            /\ Exit(0, "none")
  /\ UNCHANGED <<inputs, locals, loop, abiSaved, providerCreated,
                 networkInfo, chainReads, txLog, configErrorAt>>

Next ==
  \/ Constructor
  \/ GetNetworkInfo
  \/ LoadTokenConfig
  \/ CompileContract
  \/ EstimateGas
  \/ FactoryDeploy
  \/ WaitForDeployment
  \/ Transfer
  \/ TxWait
  \/ Summary

Spec == Init /\ [][Next]_vars

\* a run of one fixed configuration under every environment
InitEnv ==
  /\ InitRun
  /\ env \in Envs
  /\ configFile = ConfigFile("json", "", TRUE, <<TokB, TokA>>)
  /\ CliIdle
  /\ VerifierIdle
  /\ UnitsIdle
  /\ ArgsIdle

SpecEnv == InitEnv /\ [][Next]_vars


(***************************************************************************)
(* Claims.                                                                 *)
(***************************************************************************)
NumTokens == Len(Tokens)

\* the definitions the records were made from, in the order of the list
RecordDefs == [k \in DOMAIN deployments |-> deployments[k].def]

\* the indices 1..n of the definitions that did not fail, in increasing order
RECURSIVE NonFailing(_)
NonFailing(n) ==
  IF n = 0 THEN <<>>
  ELSE IF n \notin failed THEN Append(NonFailing(n - 1), n)
  ELSE NonFailing(n - 1)

\* the deploy loop was entered and has been left, normally or by the rethrow
LoopCompleted ==
  \/ pc = "summary"
  \/ pc = "done" /\ abiSaved /\ errorKind \in {"none", "io"}
LoopAborted == pc = "done" /\ errorKind = "chain" /\ attempted # {}

RecordMatchesDefinition(r) ==
  /\ r.def \in DOMAIN Tokens
  /\ r.name = Tokens[r.def].name
  /\ r.symbol = Tokens[r.def].symbol
  /\ r.decimals = Tokens[r.def].decimals

\* C1: with continueOnError=true the record list after the deploy loop is
\* exactly the non-failing definitions, one record each, in input order; with
\* continueOnError=false it is exactly the definitions preceding the first
\* failing one, no later definition is attempted, and the run ends in error
\* with exit code 1.
C1_RecordsAfterLoop ==
  /\ \A k \in DOMAIN deployments : RecordMatchesDefinition(deployments[k])
  /\ (configFile.continueOnError /\ LoopCompleted) =>
       /\ attempted = 1..NumTokens
       /\ RecordDefs = NonFailing(NumTokens)
  /\ (configFile.continueOnError /\ failed # {}) => ~LoopAborted
  /\ (~configFile.continueOnError /\ failed # {}) =>
       /\ LoopAborted
       /\ exitCode = 1
       /\ \E f \in 1..NumTokens :
            /\ failed = {f}
            /\ attempted = 1..f
            /\ RecordDefs = [k \in 1..(f - 1) |-> k]
            /\ \A p \in DOMAIN txLog : txLog[p].token <= f
  /\ (~configFile.continueOnError /\ failed = {} /\ LoopCompleted) =>
       /\ attempted = 1..NumTokens
       /\ RecordDefs = [k \in 1..NumTokens |-> k]

\* C1 witness: continueOnError=false, the 2nd of 3 definitions failed and the
\* run ended with the record of the 1st only
C1_Witness ==
  /\ ~configFile.continueOnError
  /\ NumTokens = 3
  /\ failed = {2}
  /\ pc = "done"
  /\ RecordDefs = <<1>>

\* C1, the other policy: continueOnError=true, the 2nd of 3 failed and the
\* loop ended with the records of the 1st and the 3rd
C1_WitnessContinue ==
  /\ configFile.continueOnError
  /\ NumTokens = 3
  /\ failed = {2}
  /\ pc = "summary"
  /\ RecordDefs = <<1, 3>>

\* the report and the address map of this run are on disk and hold exactly
\* the records of this.deployments
ArtifactsHoldRecords ==
  /\ \E f \in reportFiles :
       f.name.timestamp = clock /\ f.body.deployments = deployments
  /\ latestAddresses.exists
  /\ latestAddresses.entries = BuildAddressMap(deployments)
  /\ mapWrites = 1

\* C2: when continueOnError is false and a token fails after at least one
\* earlier token was deployed, the run's report and address map are written
\* and contain the records of the earlier tokens.
C2_PartialRecordsReported ==
  (pc = "done" /\ ~configFile.continueOnError /\ failed # {}
     /\ deployments # <<>>) => ArtifactsHoldRecords

HasTx(token, kind, holder, status) ==
  \E p \in DOMAIN txLog : txLog[p] = Tx(token, kind, holder, status)

\* C3: no record is appended for a token any step of which failed: every
\* record in the list belongs to a token whose creation and all of whose
\* distribution transfers were confirmed.
C3_NoPartialRecord ==
  /\ \A k \in DOMAIN deployments :
       LET i == deployments[k].def IN
         /\ HasTx(i, "create", 0, "confirmed")
         /\ \A h \in DOMAIN Tokens[i].initialHolders :
              HasTx(i, "transfer", h, "confirmed")
         /\ \A p \in DOMAIN txLog :
              txLog[p].token = i => txLog[p].status = "confirmed"
  /\ \A p \in DOMAIN txLog :
       txLog[p].status \in {"rejected", "failed"} =>
         /\ txLog[p].token \in failed
         /\ \A k \in DOMAIN deployments : deployments[k].def # txLog[p].token

\* C3 witness: a token whose creation was confirmed and whose second transfer
\* failed has no record, while another token of the run has one
C3_Witness ==
  /\ pc = "done"
  /\ deployments # <<>>
  /\ \E i \in failed :
       /\ HasTx(i, "create", 0, "confirmed")
       /\ HasTx(i, "transfer", 1, "confirmed")
       /\ HasTx(i, "transfer", 2, "failed")

\* C4: transactions are submitted and confirmed in strict definition order:
\* every transaction of a token is confirmed or has failed before any later
\* transaction is submitted, the tokens of the log follow the list, and the
\* creation of a token is confirmed before any of its transfers is submitted.
C4_StrictOrder ==
  /\ \A p, q \in DOMAIN txLog :
       p < q =>
         /\ txLog[p].status # "pending"
         /\ txLog[p].token <= txLog[q].token
         /\ txLog[q].kind = "create" => txLog[p].token < txLog[q].token
         /\ (txLog[p].token = txLog[q].token /\ txLog[p].kind = "transfer") =>
              txLog[p].holder < txLog[q].holder
  /\ \A q \in DOMAIN txLog :
       txLog[q].kind = "transfer" =>
         \E p \in 1..(q - 1) : txLog[p] = Tx(txLog[q].token, "create", 0, "confirmed")

\* C4 witness: the creation of a later token is in flight after the creation
\* and a transfer of an earlier token were confirmed
C4_Witness ==
  \E p, q \in DOMAIN txLog :
    /\ p < q
    /\ txLog[p].kind = "transfer"
    /\ txLog[p].status = "confirmed"
    /\ txLog[q].kind = "create"
    /\ txLog[q].status = "pending"

\* g = floor(e * 120 / 100)
IsBufferedEstimate(g, e) == g * 100 <= e * 120 /\ e * 120 < (g + 1) * 100

ExpectedGasLimit(g) ==
  IF gasEstimate.ok THEN IsBufferedEstimate(g, gasEstimate.gas)
  ELSE g = 3000000

C5_WitnessFallback ==
  /\ pc = "waitForDeployment"
  /\ ~gasEstimate.ok
  /\ createGas = 3000000


\* an entry of the token list is invalid: a required field is missing, the
\* decimals are outside [0,18], or a holder address fails validation
EntryInvalid(token) ==
  \/ \E k \in {"name", "symbol", "decimals", "initialSupply"} : k \notin token.present
  \/ token.decimals \notin 0..18
  \/ \E h \in DOMAIN token.initialHolders : ~isAddress(token.initialHolders[h].address)

InvalidEntries == {i \in DOMAIN Tokens : EntryInvalid(Tokens[i])}

\* the file is missing, is not parseable, or has an invalid entry
ConfigBad == configFile.kind # "json" \/ InvalidEntries # {}

\* C6, as stated: when the run terminates with a configuration error, no Chain
\* Client call of any kind, read or write, has been made.
C6_NoChainCallBeforeConfigError ==
  errorKind = "config" => (chainReads = 0 /\ txLog = <<>>)

\* C6, amended: a configuration error ends the run with exit code 1 before any
\* token is deployed: no transaction has been submitted, no gas estimate asked
\* for and nothing compiled; the Chain Client has been called exactly twice,
\* for the two reads of getNetworkInfo that precede the load.
C6_NoDeploymentBeforeConfigError ==
  /\ ConfigBad =>
       /\ pc \in {"start", "getNetworkInfo", "loadConfig", "done"}
       /\ txLog = <<>>
       /\ attempted = {}
       /\ ~abiSaved
       /\ chainReads <= 2
       /\ (pc = "done" /\ networkInfo.name # "") => errorKind = "config"
  /\ errorKind = "config" =>
       /\ ConfigBad
       /\ pc = "done"
       /\ exitCode = 1
       /\ chainReads = 2

\* C6 witness: the run ended with the configuration error of a parseable file
\* after the two reads of getNetworkInfo
C6_Witness ==
  /\ errorKind = "config"
  /\ configFile.kind = "json"
  /\ NumTokens >= 2
  /\ chainReads = 2
  /\ exitCode = 1

\* C7: validation is all-or-nothing: if any entry of the token list is
\* invalid, the load fails at the first invalid entry and no token of that
\* configuration, valid entries before it included, is ever deployed.
C7_AllOrNothing ==
  (configFile.kind = "json" /\ InvalidEntries # {}) =>
    /\ attempted = {}
    /\ txLog = <<>>
    /\ deployments = <<>>
    /\ pc \in {"start", "getNetworkInfo", "loadConfig", "done"}
    /\ (pc = "done" /\ networkInfo.name # "") =>
         /\ errorKind = "config"
         /\ exitCode = 1
         /\ configErrorAt \in InvalidEntries
         /\ \A i \in InvalidEntries : configErrorAt <= i

\* C7 witness: the load failed at the 3rd entry of a list whose first two
\* entries are valid, and nothing was deployed
C7_Witness ==
  /\ pc = "done"
  /\ errorKind = "config"
  /\ NumTokens = 3
  /\ InvalidEntries = {3}
  /\ configErrorAt = 3
  /\ txLog = <<>>

MapSymbols == {e.symbol : e \in latestAddresses.entries}

\* the entry of each symbol is unique
OneEntryPerSymbol ==
  \A e1, e2 \in latestAddresses.entries : e1.symbol = e2.symbol => e1 = e2

\* C8, as stated: the AddressMap written by a run has exactly one entry per
\* distinct symbol of the input token list.
C8_OneEntryPerInputSymbol ==
  (pc = "done" /\ mapWrites = 1) =>
    /\ MapSymbols = {Tokens[i].symbol : i \in DOMAIN Tokens}
    /\ OneEntryPerSymbol

\* C8, amended: the AddressMap written by a run has exactly one entry per
\* distinct symbol of the run's DeploymentRecords (the definitions that were
\* deployed), and for a symbol deployed more than once the entry holds the
\* address and decimals of the last record with that symbol; a definition
\* whose deployment failed contributes no entry.
C8_OneEntryPerDeployedSymbol ==
  mapWrites = 1 =>
    /\ MapSymbols = {deployments[k].symbol : k \in DOMAIN deployments}
    /\ OneEntryPerSymbol
    /\ \A e \in latestAddresses.entries :
         \E k \in DOMAIN deployments :
           /\ deployments[k].symbol = e.symbol
           /\ \A j \in DOMAIN deployments :
                deployments[j].symbol = e.symbol => j <= k
           /\ e.address = deployments[k].address
           /\ e.decimals = deployments[k].decimals
           /\ Tokens[deployments[k].def].symbol = e.symbol

\* C8 witness: a map written by a run that deployed two definitions of one
\* symbol and in which another definition failed
C8_Witness ==
  /\ mapWrites = 1
  /\ failed # {}
  /\ \E j, k \in DOMAIN deployments :
       j < k /\ deployments[j].symbol = deployments[k].symbol
  /\ \E i \in failed : Tokens[i].symbol \notin MapSymbols

\* C9, as stated: every deployment run writes both artifacts exactly once.
C9_EveryRunWritesBoth ==
  (pc = "done" /\ exitCode = 0) => (reportWrites = 1 /\ mapWrites = 1)

\* the run has written nothing: the files of the earlier run are in place
NothingWritten ==
  /\ reportWrites = 0
  /\ mapWrites = 0
  /\ reportFiles = {PriorReport}
  /\ latestAddresses = [exists |-> TRUE, entries |-> PriorAddresses]

C9_State ==
  /\ reportWrites <= 1
  /\ mapWrites <= reportWrites
  /\ pc # "done" => NothingWritten
  /\ (pc = "done" /\ exitCode = 0 /\ deployments # <<>>) =>
       (reportWrites = 1 /\ mapWrites = 1)
  /\ (deployments = <<>> \/ errorKind \notin {"none", "io"}) => NothingWritten
  /\ reportWrites = 1 =>
       /\ \E f \in reportFiles :
            /\ f.name.timestamp = clock
            /\ f.body.deployments = deployments
            /\ \A g \in reportFiles : g # f => g = PriorReport
  /\ mapWrites = 1 =>
       /\ latestAddresses.exists
       /\ \A e \in latestAddresses.entries :
            \E k \in DOMAIN deployments :
              /\ e.symbol = deployments[k].symbol
              /\ e.address = deployments[k].address

\* no report file is removed or changed
C9_Step == \A f \in reportFiles : f \in reportFiles'

\* C9, amended: a run writes its artifacts only at its end and each at most
\* once; a run that ends normally with at least one record has written both, a
\* new timestamp-named report file and the latest address map, which then holds
\* only entries of this run; a run with no record, or one ended by an error
\* before the summary, writes neither; no report file of an earlier run is
\* ever modified.
C9_ArtifactsWrittenAtEnd == []C9_State /\ [][C9_Step]_vars

\* C9 witness: the run wrote both artifacts beside the report of an earlier
\* run, for the same network
C9_Witness ==
  /\ pc = "done"
  /\ reportWrites = 1
  /\ mapWrites = 1
  /\ PriorReport \in reportFiles
  /\ Cardinality(reportFiles) = 2
  /\ configFile.network = PriorReport.name.network
  /\ latestAddresses.entries # PriorAddresses

EnvMissing == env.RPC_URL = "" \/ env.PRIVATE_KEY = "" \/ env.DEPLOYER_ADDRESS = <<>>

\* the configured address differs from the key's address, letter case aside
EnvMismatch ==
  /\ env.PRIVATE_KEY \in GoodKeys
  /\ env.DEPLOYER_ADDRESS # <<>>
  /\ ToLowerCase(WalletAddress(env.PRIVATE_KEY)) # ToLowerCase(env.DEPLOYER_ADDRESS)

\* C10: the expected signer address is compared case-insensitively with the
\* address derived from the key; on mismatch, or when RPC_URL, PRIVATE_KEY or
\* DEPLOYER_ADDRESS is absent, the process exits nonzero before any provider is
\* created, any chain call is made or any token is deployed; an address equal
\* up to letter case is accepted.
C10_SignerChecked ==
  /\ (EnvMissing \/ EnvMismatch) =>
       /\ ~providerCreated
       /\ chainReads = 0
       /\ txLog = <<>>
       /\ attempted = {}
       /\ deployments = <<>>
       /\ pc = "start" \/ (pc = "done" /\ exitCode = 1 /\ errorKind = "env")
  /\ (~EnvMissing /\ env.PRIVATE_KEY \in GoodKeys /\ ~EnvMismatch /\ pc # "start") =>
       (providerCreated /\ errorKind # "env")

\* C10 witness: the process has exited with 1 on an address that differs from
\* the key's address in more than letter case
C10_Witness ==
  /\ pc = "done"
  /\ exitCode = 1
  /\ env.RPC_URL # ""
  /\ env.PRIVATE_KEY = "key1"
  /\ env.DEPLOYER_ADDRESS = <<"c", "D">>
  /\ ~providerCreated


(***************************************************************************)
(* The interaction CLI (interactWithTokens.js).                            *)
(***************************************************************************)
\* what a lookup of a missing key, or a missing field, evaluates to
Undefined == -1

\* names every object inherits from Object.prototype
ObjectPrototypeKeys == {"constructor"}

\* deployments/latest-addresses.json as earlier deployer runs leave it
CliMapFiles ==
  {[kind |-> "missing", entries |-> {}],
   [kind |-> "garbage", entries |-> {}],
   [kind |-> "json", entries |-> PriorAddresses],
   [kind |-> "json",
    entries |-> BuildAddressMap(<<DeploymentRecord(1, TokA, 1),
                                  DeploymentRecord(2, TokB, 2)>>)]}

CliSymbols == {"A", "B", "ZZZ", "constructor"}
CliAmounts == {"5", "abc"}
CliRoles == {"MINTER", "minter", "PAUSER", "ADMIN", "Admin", "0xROLE"}

SymbolCommands ==
  {"info", "transfer", "approve", "mint", "burn", "grant-role", "pause",
   "unpause"}

\* the complete positional arguments of each command
FullArgs(command) ==
  CASE command \in {"info", "pause", "unpause"} ->
         {<<s>> : s \in CliSymbols}
    [] command \in {"transfer", "approve", "mint"} ->
         {<<s, "0xH1", a>> : s \in CliSymbols, a \in CliAmounts}
    [] command = "burn" -> {<<s, a>> : s \in CliSymbols, a \in CliAmounts}
    [] command = "grant-role" ->
         {<<s, r, "0xH1">> : s \in CliSymbols, r \in CliRoles}
    [] OTHER -> {<<>>}

\* process.argv: a command and a prefix of its arguments
Invocations ==
  UNION {UNION {{[command |-> c, args |-> SubSeq(t, 1, n)] : n \in 0..Len(t)}
                : t \in FullArgs(c)}
         : c \in SymbolCommands \cup {"list", "help"}}

\* the args.length tests of main's switch
RequiredArgs(command) ==
  CASE command \in {"info", "pause", "unpause"} -> 1
    [] command = "burn" -> 2
    [] command \in {"transfer", "approve", "mint", "grant-role"} -> 3
    [] OTHER -> 0

\* this.tokens[symbol]: an own entry, else an inherited member, else undefined
Lookup(tokens, symbol) ==
  IF \E e \in tokens : e.symbol = symbol
  THEN [found |-> TRUE,
        address |-> (CHOOSE e \in tokens : e.symbol = symbol).address]
  ELSE [found |-> symbol \in ObjectPrototypeKeys, address |-> Undefined]

toUpperCaseIdentity(role) == role

\* String.prototype.toUpperCase on the role strings
toUpperCase(role) ==
  IF role = "minter" THEN "MINTER"
  ELSE IF role = "Admin" THEN "ADMIN"
  ELSE role

\* the switch of grantRole: the lookup call a role name needs, if any
RoleLookup(role) ==
  CASE toUpperCase(role) = "MINTER" -> <<"MINTER_ROLE">>
    [] toUpperCase(role) = "PAUSER" -> <<"PAUSER_ROLE">>
    [] toUpperCase(role) = "ADMIN" -> <<"DEFAULT_ADMIN_ROLE">>
    [] OTHER -> <<>>

\* what the contract answers to a role lookup call
RoleId(fn) == "id:" \o fn

\* the awaited calls of each method, in program order
Steps(command, args) ==
  CASE command = "info" -> <<"getTokenInfo">>
    [] command \in {"transfer", "approve", "burn"} ->
         <<"decimals", command, "wait">>
    [] command = "mint" ->
         <<"MINTER_ROLE", "hasRole", "decimals", "mint", "wait">>
    [] command = "grant-role" -> RoleLookup(args[2]) \o <<"grantRole", "wait">>
    [] OTHER -> <<command, "wait">>

RECURSIVE EntriesInOrder(_)
\* Object.entries(this.tokens), by address as the deployer inserted them
EntriesInOrder(tokens) ==
  IF tokens = {} THEN <<>>
  ELSE LET e == CHOOSE x \in tokens : \A y \in tokens : x.address <= y.address
       IN  <<e>> \o EntriesInOrder(tokens \ {e})

Step(fn, symbol) == [fn |-> fn, symbol |-> symbol]
Call(kind, fn, address, arg) ==
  [kind |-> kind, fn |-> fn, address |-> address, arg |-> arg]

\* ethers.parseUnits accepts a decimal numeral only
ParsesAsAmount(a) == a = "5"

InitCLI ==
  /\ DeployerIdle
  /\ VerifierIdle
  /\ UnitsIdle
  /\ ArgsIdle
  /\ cliPc = "start"
  /\ cliEnvOk \in BOOLEAN
  /\ cliArgv \in Invocations
  /\ cliMapFile \in CliMapFiles
  /\ cliTokens = {}
  /\ cliTodo = <<>>
  /\ cliRole = ""
  /\ cliHasRole = "unknown"
  /\ cliCalls = <<>>
  /\ cliExit = -1
  /\ cliError = "none"
  /\ cliOut = "none"

cliInputs ==
  <<cliEnvOk, cliArgv, cliMapFile, deployerVars, verifierVars, unitVars,
    argVars>>

\* the process ends: exit code, the error raised (if any), what was printed
CliEnd(code, error, out) ==
  /\ cliPc' = "done"
  /\ cliExit' = code
  /\ cliError' = error
  /\ cliOut' = out
  /\ cliTodo' = <<>>

\* the awaited call returned: the method goes on, or main returns
CliAdvance ==
  IF Len(cliTodo) = 1 THEN CliEnd(0, "none", "result")
  ELSE /\ cliTodo' = Tail(cliTodo)
       /\ UNCHANGED <<cliPc, cliExit, cliError, cliOut>>

\* the method main calls, up to its first await
CliDispatch(command, args, tokens) ==
  IF command = "list"
  THEN LET entries == EntriesInOrder(tokens)
       IN  /\ cliRole' = ""
           /\ IF entries = <<>> THEN CliEnd(0, "none", "result")
              ELSE /\ cliPc' = "run"
                   /\ cliTodo' = [i \in DOMAIN entries |->
                                    Step("getTokenInfo", entries[i].symbol)]
                   /\ UNCHANGED <<cliExit, cliError, cliOut>>
  ELSE LET tokenData == Lookup(tokens, args[1])
       IN  IF ~tokenData.found
           THEN cliRole' = "" /\ CliEnd(1, "notfound", "error")
           ELSE IF tokenData.address = Undefined
           THEN cliRole' = "" /\ CliEnd(1, "target", "error")
           ELSE /\ cliPc' = "run"
                /\ cliTodo' = [i \in DOMAIN Steps(command, args) |->
                                 Step(Steps(command, args)[i], args[1])]
                /\ cliRole' = IF command = "grant-role"
                                   /\ RoleLookup(args[2]) = <<>>
                              THEN args[2] ELSE ""
                /\ UNCHANGED <<cliExit, cliError, cliOut>>

\* main of interactWithTokens.js up to the first awaited chain call; an error
\* raised before the try block reaches main().catch(console.error)
CliMain ==
  /\ cliPc = "start"
  /\ UNCHANGED <<cliInputs, cliCalls, cliHasRole>>
  /\ IF ~cliEnvOk
     THEN /\ UNCHANGED <<cliTokens, cliRole>>
          /\ CliEnd(0, "wallet", "error")
     ELSE IF cliMapFile.kind # "json"
     THEN /\ UNCHANGED <<cliTokens, cliRole>>
          /\ CliEnd(0, IF cliMapFile.kind = "missing" THEN "nomap" ELSE "parse",
                    "error")
     ELSE /\ cliTokens' = cliMapFile.entries
          /\ IF cliArgv.command \notin SymbolCommands \cup {"list"}
             THEN cliRole' = "" /\ CliEnd(0, "none", "help")
             ELSE IF Len(cliArgv.args) < RequiredArgs(cliArgv.command)
             THEN cliRole' = "" /\ CliEnd(1, "none", "usage")
             ELSE CliDispatch(cliArgv.command, cliArgv.args, cliMapFile.entries)

ReadFns ==
  {"getTokenInfo", "decimals", "hasRole", "MINTER_ROLE", "PAUSER_ROLE",
   "DEFAULT_ADMIN_ROLE"}
WriteFns ==
  {"transfer", "approve", "mint", "burn", "grantRole", "pause", "unpause"}

RoleCheckNever(hasMinterRole) == FALSE

\* if (!hasMinterRole) throw, line 119
RoleCheckFails(hasMinterRole) == ~hasMinterRole

CliAddressFirst ==
  (CHOOSE e \in cliTokens : \A y \in cliTokens : e.address <= y.address).address

\* the address the contract object of the current method was built with
CliAddress == Lookup(cliTokens, Head(cliTodo).symbol).address
AmountArg == cliArgv.args[Len(cliArgv.args)]

\* an awaited read call and the code that follows it up to the next await
CliRead ==
  /\ cliPc = "run"
  /\ Head(cliTodo).fn \in ReadFns
  /\ UNCHANGED <<cliInputs, cliTokens>>
  /\ \E ok \in BOOLEAN, has \in BOOLEAN :
       LET fn == Head(cliTodo).fn
       IN  /\ cliCalls' =
                cliCalls \o
                  (IF fn = "getTokenInfo"
                   THEN <<Call("read", "name", CliAddress, ""),
                          Call("read", "totalSupply", CliAddress, ""),
                          Call("read", "decimals", CliAddress, ""),
                          Call("read", "balanceOf", CliAddress, "")>>
                   ELSE <<Call("read", fn, CliAddress,
                               IF fn = "hasRole" THEN cliRole ELSE "")>>)
           /\ cliRole' = IF ok /\ fn \in {"MINTER_ROLE", "PAUSER_ROLE",
                                          "DEFAULT_ADMIN_ROLE"}
                         THEN RoleId(fn) ELSE cliRole
           /\ cliHasRole' = IF ok /\ fn = "hasRole"
                            THEN (IF has THEN "true" ELSE "false")
                            ELSE cliHasRole
           /\ IF ~ok
              THEN IF cliArgv.command = "list" THEN CliAdvance
                   ELSE CliEnd(1, "chain", "error")
              ELSE IF fn = "hasRole" /\ RoleCheckFails(has)
              THEN CliEnd(1, "role", "error")
              ELSE IF fn = "decimals" /\ ~ParsesAsAmount(AmountArg)
              THEN CliEnd(1, "amount", "error")
              ELSE CliAdvance

\* an awaited write call: the transaction is submitted
CliSend ==
  /\ cliPc = "run"
  /\ Head(cliTodo).fn \in WriteFns
  /\ UNCHANGED <<cliInputs, cliTokens, cliRole, cliHasRole>>
  /\ cliCalls' = cliCalls \o
       <<Call("write", Head(cliTodo).fn, CliAddress,
              IF Head(cliTodo).fn = "grantRole" THEN cliRole ELSE "")>>
  /\ \E ok \in BOOLEAN :
       IF ok THEN CliAdvance ELSE CliEnd(1, "chain", "error")

\* await tx.wait()
CliWait ==
  /\ cliPc = "run"
  /\ Head(cliTodo).fn = "wait"
  /\ UNCHANGED <<cliInputs, cliTokens, cliRole, cliHasRole>>
  /\ cliCalls' = cliCalls \o <<Call("wait", "wait", CliAddress, "")>>
  /\ \E ok \in BOOLEAN :
       IF ok THEN CliAdvance ELSE CliEnd(1, "chain", "error")

NextCLI == CliMain \/ CliRead \/ CliSend \/ CliWait

SpecCLI == InitCLI /\ [][NextCLI]_vars


(***************************************************************************)
(* Claims about the interaction CLI.                                       *)
(***************************************************************************)
CliDone == cliPc = "done"
MapLoaded == cliEnvOk /\ cliMapFile.kind = "json"
NoChainCall == cliCalls = <<>>
TooFewArgs ==
  /\ cliArgv.command \in SymbolCommands
  /\ Len(cliArgv.args) < RequiredArgs(cliArgv.command)
UnknownSymbol ==
  /\ cliArgv.command \in SymbolCommands
  /\ Len(cliArgv.args) >= RequiredArgs(cliArgv.command)
  /\ \A e \in cliMapFile.entries : e.symbol # cliArgv.args[1]

\* C11: every invocation of the CLI that ends because an error was raised
\* (the address map cannot be loaded, the symbol is unknown, or any other
\* runtime error) has printed the error and exits with a nonzero code.
C11_FatalErrorExitsNonzero ==
  (CliDone /\ cliError # "none") => (cliExit >= 1 /\ cliOut = "error")

\* C12: an invocation of a command that takes arguments with fewer than the
\* required number of them ends with the usage message and a nonzero exit
\* code, and no chain call (read or write) is made at any point of it.
C12_UsageOnTooFewArgs ==
  TooFewArgs =>
    /\ NoChainCall
    /\ CliDone => (cliOut = "usage" /\ cliExit >= 1)

\* C13: with the address map loaded, a command given a symbol that is not a
\* key of the map ends with the 'Token <symbol> not found' error and a nonzero
\* exit code, and no chain call is made and no transaction submitted.
C13_UnknownSymbolNotFound ==
  (MapLoaded /\ UnknownSymbol) =>
    /\ NoChainCall
    /\ CliDone => (cliError = "notfound" /\ cliExit >= 1)


(***************************************************************************)
(* The verification script (verifyContracts.js).                           *)
(***************************************************************************)
\* the characters of the file names, in ascending order of their code units
CodeOrder ==
  <<"-", ".", "1", "2", "a", "c", "d", "e", "f", "g", "i", "j", "l", "m", "n",
    "o", "p", "r", "s", "t", "v", "y">>
CharCode(c) == CHOOSE i \in DOMAIN CodeOrder : CodeOrder[i] = c

RECURSIVE Before(_, _)
\* a < b as Array.prototype.sort() without a comparator orders strings
Before(a, b) ==
  IF a = <<>> THEN b # <<>>
  ELSE IF b = <<>> THEN FALSE
  ELSE IF Head(a) = Head(b) THEN Before(Tail(a), Tail(b))
  ELSE CharCode(Head(a)) < CharCode(Head(b))

startsWith(f, prefix) ==
  Len(f) >= Len(prefix) /\ SubSeq(f, 1, Len(prefix)) = prefix
endsWith(f, suffix) ==
  Len(f) >= Len(suffix) /\ SubSeq(f, Len(f) - Len(suffix) + 1, Len(f)) = suffix

ReportPrefix == <<"d", "e", "p", "l", "o", "y", "m", "e", "n", "t", "-">>
JsonSuffix == <<".", "j", "s", "o", "n">>
Mainnet == <<"m", "a", "i", "n", "n", "e", "t">>
Sepolia == <<"s", "e", "p", "o", "l", "i", "a">>
Polygon == <<"p", "o", "l", "y", "g", "o", "n">>
Networks == {Mainnet, Sepolia, Polygon}
\* the fixed-width timestamps of two runs, the second later than the first
Timestamps == {<<"1">>, <<"2">>}

\* `deployment-${network}-${timestamp}.json`, line 623 of deployTokens.js
ReportFileName(network, timestamp) ==
  ReportPrefix \o network \o <<"-">> \o timestamp \o JsonSuffix
LatestAddressesName ==
  <<"l", "a", "t", "e", "s", "t", "-", "a", "d", "d", "r", "e", "s", "s", "e", "s", ".", "j", "s", "o", "n">>
VerificationReportName ==
  <<"v", "e", "r", "i", "f", "i", "c", "a", "t", "i", "o", "n", "-", "r", "e", "p", "o", "r", "t", ".", "j", "s", "o", "n">>

ReportFileNames ==
  {ReportFileName(n, t) : n \in Networks, t \in Timestamps}

\* the deployments directory: report files of earlier runs and the other files
Directories ==
  {{}} \cup {d \cup {LatestAddressesName} : d \in SUBSET ReportFileNames \ {{}}}
       \cup {ReportFileNames \cup {LatestAddressesName, VerificationReportName}}

\* the filter of loadDeploymentReport
deploymentFiles(dir) ==
  {f \in dir : startsWith(f, ReportPrefix) /\ endsWith(f, JsonSuffix)}

\* deploymentFiles.sort().reverse()[0]
latestFile(fileSet) ==
  CHOOSE f \in fileSet : \A g \in fileSet : g = f \/ Before(g, f)

MaxRecords == 2
MaxAttempts == 30

\* the deployments of a report: records as deployToken pushes them
RecordTokens == {TokA, TokB, TokA2}
RecordLists ==
  UNION {{[i \in 1..n |-> DeploymentRecord(i, ts[i], i)] :
            ts \in [1..n -> RecordTokens]} : n \in 0..MaxRecords}

SubmitOutcomes == {"throw", "rejected", "accepted"}
PollAnswers == {"success", "pending", "failed", "error"}

MorePollsOneMore(i) == i <= MaxAttempts

\* the loop test i < attempts of checkVerificationStatus
MorePolls(i) == i < MaxAttempts

RetryOnPendingOnly(answer) == answer = "pending"

\* the answers after which checkVerificationStatus goes round its loop again:
\* 'Pending in queue', and an error thrown by the query (caught and logged)
Retry(answer) == answer \in {"pending", "error"}

PushSymbolOnce(list, symbol) ==
  IF \E i \in DOMAIN list : list[i] = symbol THEN list
  ELSE Append(list, symbol)

\* results.verified.push / results.failed.push
PushSymbol(list, symbol) == Append(list, symbol)

verifierInputs ==
  <<vApiKey, vDir, vRecords, deployerVars, cliVars, unitVars, argVars>>
polling == <<vPolls, vPending, vLastPoll, vSawError>>

InitVerifier ==
  /\ DeployerIdle
  /\ CliIdle
  /\ UnitsIdle
  /\ ArgsIdle
  /\ vPc = "start"
  /\ vReport = [found |-> FALSE, name |-> <<>>, deployments |-> <<>>]
  /\ vIdx = 0
  /\ vPolls = 0
  /\ vPending = 0
  /\ vLastPoll = "none"
  /\ vSawError = FALSE
  /\ vResults = [verified |-> <<>>, failed |-> <<>>]
  /\ vOutcomes = <<>>
  /\ vExit = -1
  /\ vSaved = FALSE

\* runs over the reports a deployment leaves, in a directory with one report
InitVerify ==
  /\ InitVerifier
  /\ vApiKey \in BOOLEAN
  /\ vDir = {ReportFileName(Sepolia, <<"1">>), LatestAddressesName}
  /\ vRecords \in RecordLists

\* runs over the directories, each report holding one record
InitLoad ==
  /\ InitVerifier
  /\ vApiKey = TRUE
  /\ vDir \in Directories
  /\ vRecords = <<DeploymentRecord(1, TokA, 1)>>

\* verifyContract returned: verifyAll pushes the symbol, sleeps, and goes to
\* the next record or leaves the loop
Classified(success, outcome) ==
  LET symbol == vReport.deployments[vIdx].symbol
  IN  /\ vResults' =
           IF success
           THEN [vResults EXCEPT !.verified = PushSymbol(@, symbol)]
           ELSE [vResults EXCEPT !.failed = PushSymbol(@, symbol)]
      /\ vOutcomes' = Append(vOutcomes, outcome)
      /\ vIdx' = vIdx + 1
      /\ vPc' = IF vIdx = Len(vReport.deployments) THEN "save" ELSE "submit"

\* main and verifyAll up to the first verifyContract call
VerifyAll ==
  /\ vPc = "start"
  /\ UNCHANGED <<verifierInputs, polling, vResults, vOutcomes, vSaved>>
  /\ IF ~vApiKey
     THEN vPc' = "done" /\ vExit' = 1 /\ UNCHANGED <<vReport, vIdx>>
     ELSE IF deploymentFiles(vDir) = {}
     THEN vPc' = "done" /\ vExit' = 0 /\ UNCHANGED <<vReport, vIdx>>
     ELSE /\ vReport' = [found |-> TRUE,
                         name |-> latestFile(deploymentFiles(vDir)),
                         deployments |-> vRecords]
          /\ vIdx' = 1
          /\ vPc' = IF vRecords = <<>> THEN "save" ELSE "submit"
          /\ UNCHANGED vExit

\* verifyContract up to the answer to the verification request
Submit ==
  /\ vPc = "submit"
  /\ UNCHANGED <<verifierInputs, vReport, vExit, vSaved>>
  /\ vPolls' = 0
  /\ vPending' = 0
  /\ vLastPoll' = "none"
  /\ vSawError' = FALSE
  /\ \E o \in SubmitOutcomes :
       CASE o = "throw" -> Classified(FALSE, "submitThrow")
         [] o = "rejected" -> Classified(FALSE, "submitRejected")
         [] OTHER -> vPc' = "poll" /\ UNCHANGED <<vResults, vOutcomes, vIdx>>

\* one round of the loop of checkVerificationStatus: sleep, query, decide
Poll ==
  /\ vPc = "poll"
  /\ UNCHANGED <<verifierInputs, vReport, vExit, vSaved>>
  /\ vPolls' = vPolls + 1
  /\ \E answer \in PollAnswers :
       /\ vLastPoll' = answer
       /\ vPending' = IF answer = "pending" THEN vPending + 1 ELSE vPending
       /\ vSawError' = (vSawError \/ answer = "error")
       /\ IF answer = "success" THEN Classified(TRUE, "verified")
          ELSE IF ~Retry(answer) THEN Classified(FALSE, "pollFailed")
          ELSE IF MorePolls(vPolls + 1)
          THEN UNCHANGED <<vPc, vResults, vOutcomes, vIdx>>
          ELSE Classified(FALSE, "timeout")

\* the summary and the write of verification-report.json; an error is caught
SaveVerificationReport ==
  /\ vPc = "save"
  /\ UNCHANGED <<verifierInputs, vReport, polling, vResults, vOutcomes, vIdx>>
  /\ vPc' = "done"
  /\ vExit' = 0
  /\ vSaved' \in BOOLEAN

NextVerify == VerifyAll \/ Submit \/ Poll \/ SaveVerificationReport

SpecVerify == InitVerify /\ [][NextVerify]_vars

SpecLoad == InitLoad /\ [][NextVerify]_vars


(***************************************************************************)
(* Claims about the verification script.                                   *)
(***************************************************************************)
\* checkVerificationStatus has returned for the record classified last
Returned == vPc # "poll" /\ vLastPoll # "none"
LastOutcome == vOutcomes[Len(vOutcomes)]

C14_State ==
  /\ vPolls <= MaxAttempts
  /\ vPc = "poll" => vPolls < MaxAttempts
  /\ (Returned /\ ~vSawError /\ vLastPoll = "success") =>
       (LastOutcome = "verified" /\ vPolls = vPending + 1)
  /\ (Returned /\ ~vSawError /\ vLastPoll = "pending") =>
       (LastOutcome = "timeout" /\ vPending = MaxAttempts
          /\ vPolls = MaxAttempts)

C14_Step == vPolls' > vPolls => (vPc = "poll" /\ vPolls' = vPolls + 1)

\* C14: the status endpoint is polled at most 30 times for a contract; when it
\* answers pending k times and then success (k+1 <= 30) the contract is
\* verified after exactly k+1 polls; when it answers pending on every poll the
\* contract fails with a timeout after exactly 30 polls; once the polling has
\* returned, no further poll is made for that contract.
C14_PollsUntilTerminalOrCeiling == []C14_State /\ [][C14_Step]_vars

C14_Witness ==
  /\ Returned
  /\ ~vSawError
  /\ LastOutcome = "timeout"
  /\ vPending = MaxAttempts
  /\ vPolls = MaxAttempts

C14_WitnessThreePolls ==
  /\ Returned
  /\ ~vSawError
  /\ LastOutcome = "verified"
  /\ vPending = 2
  /\ vPolls = 3

InList(list, symbol) == \E i \in DOMAIN list : list[i] = symbol

RECURSIVE SymbolsWhere(_, _, _)
\* the symbols of the classified records whose outcome is (is not) 'verified',
\* in record order
SymbolsWhere(records, outcomes, verified) ==
  IF outcomes = <<>> THEN <<>>
  ELSE LET n == Len(outcomes)
           rest == SymbolsWhere(records, SubSeq(outcomes, 1, n - 1), verified)
       IN  IF (outcomes[n] = "verified") = verified
           THEN Append(rest, records[n].symbol)
           ELSE rest

LoopLeft == vReport.found /\ vPc \in {"save", "done"}

\* C15 (as stated): after verifyAll has gone through the report, the symbol of
\* every record is in exactly one of the lists verified and failed, the one
\* its own outcome selects.
C15_SymbolInExactlyOneList ==
  LoopLeft =>
    \A i \in DOMAIN vRecords :
      /\ Len(vOutcomes) = Len(vRecords)
      /\ InList(vResults.verified, vRecords[i].symbol)
           # InList(vResults.failed, vRecords[i].symbol)
      /\ InList(vResults.verified, vRecords[i].symbol)
           <=> (vOutcomes[i] = "verified")

\* C15 (amended): verifyAll classifies the records of the loaded report in
\* order, whatever the outcome of the earlier ones; every record adds its
\* symbol exactly once, to the list its own outcome selects, so that the list
\* verified (failed) is the sequence of symbols of the records that were (were
\* not) verified, in record order.
C15_EachRecordClassifiedOnce ==
  vReport.found =>
    /\ Len(vOutcomes) = vIdx - 1
    /\ vIdx <= Len(vRecords) + 1
    /\ vResults.verified = SymbolsWhere(vRecords, vOutcomes, TRUE)
    /\ vResults.failed = SymbolsWhere(vRecords, vOutcomes, FALSE)
    /\ vPc \in {"save", "done"} => Len(vOutcomes) = Len(vRecords)
    /\ vSaved => vPc = "done"

C15_Witness ==
  /\ vPc = "done"
  /\ vSaved
  /\ Len(vRecords) = 2
  /\ vRecords[1].symbol = vRecords[2].symbol
  /\ vOutcomes = <<"timeout", "verified">>
  /\ vResults = [verified |-> <<vRecords[2].symbol>>,
                 failed |-> <<vRecords[1].symbol>>]

\* the timestamp a report file name carries, as an ordinal
TimestampOf(f) == CharCode(f[Len(f) - Len(JsonSuffix)])

\* C16: the report that the verification script loads is, among all report
\* files deployment-<network>-<timestamp>.json of the directory, for any mix
\* of networks, one with the latest timestamp.
C16_LoadsLatestTimestamp ==
  vReport.found =>
    \A f \in deploymentFiles(vDir) : TimestampOf(f) <= TimestampOf(vReport.name)

\* C20 (as stated): polling goes on only after a pending answer; after any
\* other answer, an error of the query included, no further poll is made.
C20_RetryOnlyOnPending ==
  vPc = "poll" => (vLastPoll \in {"none", "pending"} /\ vPolls < MaxAttempts)

\* C20 (amended): polling goes on, below the attempt ceiling, after a pending
\* answer and after a query that threw; an explicit failure answer is terminal
\* at once, and a pending answer or an error on the last allowed poll ends the
\* polling with a timeout.
C20_RetryOnPendingOrError ==
  /\ vPc = "poll" =>
       (vLastPoll \in {"none", "pending", "error"} /\ vPolls < MaxAttempts)
  /\ (Returned /\ vLastPoll = "failed") => LastOutcome = "pollFailed"
  /\ (Returned /\ vLastPoll \in {"pending", "error"}) =>
       (LastOutcome = "timeout" /\ vPolls = MaxAttempts)

C20_Witness ==
  /\ vPc = "poll"
  /\ vLastPoll = "error"
  /\ vPolls >= 1


(***************************************************************************)
(* Scaling of amounts (ethers.parseUnits as deployTokens.js calls it).     *)
(***************************************************************************)
MaxWholeDigits == 2
MaxFracDigits == 2

Digits == {0, 1, 9}
DigitStrings(lo, hi) == UNION {[1..n -> Digits] : n \in lo..hi}

\* a decimal string "whole.frac" ("whole" when frac is empty)
Amounts ==
  {[whole |-> w, frac |-> f] : w \in DigitStrings(1, MaxWholeDigits),
                               f \in DigitStrings(0, MaxFracDigits)}
OneTenth == [whole |-> <<0>>, frac |-> <<1>>]
UnitDecimals == {0, 1, 2, 6, 18}

Zeros(n) == [i \in 1..n |-> 0]

RECURSIVE BigInt(_)
\* BigInt(string): the numeral without leading zeros
BigInt(digits) ==
  IF Len(digits) > 1 /\ Head(digits) = 0 THEN BigInt(Tail(digits))
  ELSE IF digits = <<>> THEN <<0>>
  ELSE digits

\* ethers.parseUnits(value, decimals): pads the fraction to `decimals` digits,
\* throws when a nonzero digit lies beyond them, and reads whole + fraction as
\* one integer
parseUnits(value, decimals) ==
  LET padded == IF Len(value.frac) < decimals
                THEN value.frac \o Zeros(decimals - Len(value.frac))
                ELSE value.frac
  IN  IF \E i \in (decimals + 1)..Len(padded) : padded[i] # 0
      THEN [ok |-> FALSE, digits |-> <<>>]
      ELSE [ok |-> TRUE,
            digits |-> BigInt(value.whole \o SubSeq(padded, 1, decimals))]

\* line 533: const initialSupplyWei = ethers.parseUnits(token.initialSupply,
\* token.decimals)
initialSupplyWei(token) == parseUnits(token.initialSupply, token.decimals)

holderAmountWei18(token, amount) == parseUnits(amount, 18)

\* line 592: const amount = ethers.parseUnits(holder.amount, token.decimals)
holderAmountWei(token, amount) == parseUnits(amount, token.decimals)

InitUnits ==
  /\ DeployerIdle
  /\ CliIdle
  /\ VerifierIdle
  /\ ArgsIdle
  /\ uPc = "start"
  /\ \E d \in UnitDecimals, s \in Amounts :
       \E h \in {s, OneTenth} :
         uToken = [decimals |-> d, initialSupply |-> s, holderAmount |-> h]
  /\ uSupplyWei = [ok |-> FALSE, digits |-> <<>>]
  /\ uHolderWei = [ok |-> FALSE, digits |-> <<>>]

unitInputs == <<uToken, deployerVars, cliVars, verifierVars, argVars>>

\* deployToken scales the initial supply; parseUnits throwing ends the token
ScaleInitialSupply ==
  /\ uPc = "start"
  /\ uSupplyWei' = initialSupplyWei(uToken)
  /\ uPc' = IF initialSupplyWei(uToken).ok THEN "supply" ELSE "done"
  /\ UNCHANGED <<unitInputs, uHolderWei>>

\* distributeTokens scales the amount of a holder
ScaleHolderAmount ==
  /\ uPc = "supply"
  /\ uHolderWei' = holderAmountWei(uToken, uToken.holderAmount)
  /\ uPc' = "done"
  /\ UNCHANGED <<unitInputs, uSupplyWei>>

NextUnits == ScaleInitialSupply \/ ScaleHolderAmount

SpecUnits == InitUnits /\ [][NextUnits]_vars

(***************************************************************************)
(* Claims about the scaling.                                               *)
(***************************************************************************)
RECURSIVE NumVal(_)
NumVal(digits) ==
  IF digits = <<>> THEN 0
  ELSE 10 * NumVal(SubSeq(digits, 1, Len(digits) - 1)) + digits[Len(digits)]

RECURSIVE Pow10(_)
Pow10(n) == IF n = 0 THEN 1 ELSE 10 * Pow10(n - 1)

\* the numeral of n * 10^k, from the numeral of n
TimesPow10(digits, k) == IF digits = <<0>> THEN <<0>> ELSE digits \o Zeros(k)

\* s * 10^d for s = whole.frac with at most d fractional digits: the integer
\* whole-frac (the digits of s without the point) times 10^(d - |frac|)
Scaled(s, d) == TimesPow10(BigInt(s.whole \o s.frac), d - Len(s.frac))

ExactlyScaled(wei, s, d) ==
  /\ wei.ok
  /\ wei.digits = Scaled(s, d)
  \* as numbers too, where s * 10^d stays below 2^31
  /\ d <= 6 =>
       NumVal(wei.digits) = NumVal(s.whole \o s.frac) * Pow10(d - Len(s.frac))

\* C17: for a token with decimals d and an amount string with at most d
\* fractional digits, the value computed for the initial supply and for a
\* holder transfer is exactly s * 10^d (0.1 with 18 decimals gives 1 followed
\* by 17 zeros), and both are computed by the same rule.
C17_ExactScaling ==
  LET d == uToken.decimals
      s == uToken.initialSupply
      h == uToken.holderAmount
  IN  /\ (uPc # "start" /\ Len(s.frac) <= d) => ExactlyScaled(uSupplyWei, s, d)
      /\ (uPc = "done" /\ uSupplyWei.ok /\ Len(h.frac) <= d) =>
           ExactlyScaled(uHolderWei, h, d)
      /\ (uPc = "done" /\ uSupplyWei.ok /\ h = s) => uHolderWei = uSupplyWei
      /\ (uPc = "done" /\ uSupplyWei.ok /\ h = OneTenth /\ d = 18) =>
           uHolderWei.digits = <<1>> \o Zeros(17)

C17_Witness ==
  /\ uPc = "done"
  /\ uToken.decimals = 18
  /\ uToken.initialSupply = [whole |-> <<1, 9>>, frac |-> <<0, 1>>]
  /\ uToken.holderAmount = OneTenth
  /\ uSupplyWei.ok
  /\ uHolderWei = [ok |-> TRUE, digits |-> <<1>> \o Zeros(17)]


(***************************************************************************)
(* Further claims about the deployment run.                                *)
(***************************************************************************)
Unconfirmed == {p \in DOMAIN txLog : txLog[p].status = "pending"}

\* C18: at most one transaction of the run is unconfirmed at any moment; a
\* transfer to the first holder directly follows the confirmed creation of
\* its token, a transfer to a later holder directly follows the confirmed
\* transfer to the holder before it, and when a creation is submitted every
\* earlier transaction belongs to an earlier token and is no longer pending.
C18_OneTransactionInFlight ==
  /\ Cardinality(Unconfirmed) <= 1
  /\ \A q \in DOMAIN txLog :
       txLog[q].kind = "transfer" =>
         /\ q > 1
         /\ txLog[q - 1] =
              IF txLog[q].holder = 1
              THEN Tx(txLog[q].token, "create", 0, "confirmed")
              ELSE Tx(txLog[q].token, "transfer", txLog[q].holder - 1,
                      "confirmed")
  /\ \A q \in DOMAIN txLog :
       txLog[q].kind = "create" =>
         \A p \in 1..(q - 1) :
           /\ txLog[p].token < txLog[q].token
           /\ txLog[p].status \in {"confirmed", "failed", "rejected"}

C18_Witness ==
  \E q \in DOMAIN txLog :
    /\ q > 2
    /\ txLog[q] = Tx(txLog[q].token, "transfer", 2, "pending")
    /\ txLog[q - 1] = Tx(txLog[q].token, "transfer", 1, "confirmed")
    /\ txLog[q - 2] = Tx(txLog[q].token, "create", 0, "confirmed")


\* definitions with an empty name and an empty symbol
TokEmptyName == Token(RequiredFields, "", "N", 18, FALSE, <<>>)
TokEmptySymbol == Token(RequiredFields, "Eta", "", 18, FALSE, <<Holder(1)>>)

DataPool == TokenPool \cup {TokEmptyName, TokEmptySymbol}

\* runs over config files that hold one definition
InitData ==
  /\ InitRun
  /\ env = GoodEnv
  /\ configFile \in {ConfigFile("json", nw, coe, <<t>>) :
                       nw \in {"", "testnet"}, coe \in BOOLEAN, t \in DataPool}
  /\ CliIdle
  /\ VerifierIdle
  /\ UnitsIdle
  /\ ArgsIdle

SpecData == InitData /\ [][Next]_vars

\* loadTokenConfig has returned the config
ConfigAccepted ==
  /\ configFile.kind = "json"
  /\ pc \in {"compile", "estimateGas", "factoryDeploy", "waitForDeployment",
             "transfer", "txWait", "summary"}

\* C19: every definition of a config that the loader accepted has a non-empty
\* name and a non-empty symbol, decimals between 0 and 18, and a valid address
\* for every initial holder.
C19_AcceptedMatchesDataModel ==
  ConfigAccepted =>
    \A i \in DOMAIN Tokens :
      /\ Tokens[i].name # ""
      /\ Tokens[i].symbol # ""
      /\ Tokens[i].decimals \in 0..MaxDecimals
      /\ \A h \in DOMAIN Tokens[i].initialHolders :
           isAddress(Tokens[i].initialHolders[h].address)


(***************************************************************************)
(* Further claims about the interaction CLI.                               *)
(***************************************************************************)
KnownSymbol ==
  /\ cliArgv.command \in SymbolCommands
  /\ Len(cliArgv.args) >= RequiredArgs(cliArgv.command)
  /\ \E e \in cliMapFile.entries : e.symbol = cliArgv.args[1]

\* the address the address map file gives for the symbol of the invocation
MapAddress ==
  (CHOOSE e \in cliMapFile.entries : e.symbol = cliArgv.args[1]).address

R(fn) == [kind |-> "read", fn |-> fn]
W(fn) == [kind |-> "write", fn |-> fn]
Confirmation == [kind |-> "wait", fn |-> "wait"]

\* the calls a command makes when nothing fails, in order
ExpectedCalls ==
  LET c == cliArgv.command
      role == cliArgv.args[2]
  IN  CASE c = "info" ->
             <<R("name"), R("totalSupply"), R("decimals"), R("balanceOf")>>
        [] c = "transfer" -> <<R("decimals"), W("transfer"), Confirmation>>
        [] c = "approve" -> <<R("decimals"), W("approve"), Confirmation>>
        [] c = "burn" -> <<R("decimals"), W("burn"), Confirmation>>
        [] c = "mint" ->
             <<R("MINTER_ROLE"), R("hasRole"), R("decimals"), W("mint"),
               Confirmation>>
        [] c = "pause" -> <<W("pause"), Confirmation>>
        [] c = "unpause" -> <<W("unpause"), Confirmation>>
        [] c = "grant-role" ->
             (IF role \in {"MINTER", "minter"} THEN <<R("MINTER_ROLE")>>
              ELSE IF role = "PAUSER" THEN <<R("PAUSER_ROLE")>>
              ELSE IF role \in {"ADMIN", "Admin"}
              THEN <<R("DEFAULT_ADMIN_ROLE")>>
              ELSE <<>>) \o <<W("grantRole"), Confirmation>>

CallsMade == [i \in DOMAIN cliCalls |-> [kind |-> cliCalls[i].kind,
                                         fn |-> cliCalls[i].fn]]
IsPrefix(a, b) == Len(a) <= Len(b) /\ SubSeq(b, 1, Len(a)) = a
Writes == {i \in DOMAIN cliCalls : cliCalls[i].kind = "write"}
Succeeded == CliDone /\ cliExit = 0 /\ cliOut = "result"

\* C21 (as stated): an invocation of a command against a symbol that succeeds
\* has made exactly one chain call, a read for info and a write for the other
\* commands, to the address the map gives for the symbol.
C21_ExactlyOneCall ==
  (MapLoaded /\ KnownSymbol /\ Succeeded) =>
    /\ Len(cliCalls) = 1
    /\ cliCalls[1].kind = IF cliArgv.command = "info" THEN "read" ELSE "write"
    /\ cliCalls[1].address = MapAddress

\* C21 (amended): every chain call of an invocation against a symbol goes to
\* the address the map gives for that symbol; the calls made are, in order, a
\* prefix of the calls of the command (the reads it needs, then its one write,
\* then the wait for the confirmation; four reads for info) and all of them
\* when the invocation succeeds; at most one write is ever submitted, and
\* none for an unknown symbol.
C21_CallsOfCommand ==
  (MapLoaded /\ cliArgv.command \in SymbolCommands) =>
    IF KnownSymbol
    THEN /\ \A i \in DOMAIN cliCalls : cliCalls[i].address = MapAddress
         /\ IsPrefix(CallsMade, ExpectedCalls)
         /\ Succeeded => CallsMade = ExpectedCalls
         /\ Cardinality(Writes) <= 1
    ELSE NoChainCall

C21_Witness ==
  /\ MapLoaded
  /\ Succeeded
  /\ cliArgv.command = "mint"
  /\ cliArgv.args[1] = "B"
  /\ Cardinality(cliMapFile.entries) = 2
  /\ Len(cliCalls) = 5
  /\ cliCalls[4] = Call("write", "mint", MapAddress, "")


GrantRole == MapLoaded /\ KnownSymbol /\ cliArgv.command = "grant-role"
RoleArg == cliArgv.args[2]
LookupReads ==
  {i \in DOMAIN cliCalls :
     cliCalls[i].fn \in {"MINTER_ROLE", "PAUSER_ROLE", "DEFAULT_ADMIN_ROLE"}}

\* grantRole was given the identifier that the lookup call `fn` returned, and
\* that lookup is the first call of the invocation
ResolvedBy(fn) ==
  /\ cliCalls # <<>> => cliCalls[1] = Call("read", fn, MapAddress, "")
  /\ \A i \in Writes : cliCalls[i].arg = RoleId(fn)

\* grantRole was given the role string itself and no lookup was made
PassedVerbatim ==
  /\ LookupReads = {}
  /\ \A i \in Writes : cliCalls[i].arg = RoleArg

\* C22 (as stated): the role names MINTER, PAUSER and ADMIN are resolved by
\* the contract's lookup calls; every other role string is passed to
\* grantRole unchanged, without a lookup call.
C22_OnlyExactNamesResolved ==
  GrantRole =>
    CASE RoleArg = "MINTER" -> ResolvedBy("MINTER_ROLE")
      [] RoleArg = "PAUSER" -> ResolvedBy("PAUSER_ROLE")
      [] RoleArg = "ADMIN" -> ResolvedBy("DEFAULT_ADMIN_ROLE")
      [] OTHER -> PassedVerbatim

\* C22 (amended): a role string that is MINTER, PAUSER or ADMIN in any
\* letter case is resolved by the contract's MINTER_ROLE(), PAUSER_ROLE() or
\* DEFAULT_ADMIN_ROLE() lookup call, whose answer is what grantRole is given;
\* every other role string is passed to grantRole unchanged, without a lookup.
C22_NamesResolvedInAnyCase ==
  GrantRole =>
    CASE RoleArg \in {"MINTER", "minter"} -> ResolvedBy("MINTER_ROLE")
      [] RoleArg = "PAUSER" -> ResolvedBy("PAUSER_ROLE")
      [] RoleArg \in {"ADMIN", "Admin"} -> ResolvedBy("DEFAULT_ADMIN_ROLE")
      [] OTHER -> PassedVerbatim

C22_Witness ==
  /\ GrantRole
  /\ Succeeded
  /\ RoleArg = "minter"
  /\ cliCalls[1] = Call("read", "MINTER_ROLE", MapAddress, "")
  /\ cliCalls[2] = Call("write", "grantRole", MapAddress, RoleId("MINTER_ROLE"))

C22_WitnessVerbatim ==
  /\ GrantRole
  /\ Succeeded
  /\ cliCalls[1] = Call("write", "grantRole", MapAddress, "0xROLE")


Mint == MapLoaded /\ KnownSymbol /\ cliArgv.command = "mint"

\* C25: the mint command submits its transaction only after the contract's
\* hasRole lookup, made with the identifier that MINTER_ROLE() returned,
\* answered true; when it answered false the invocation ends with an error
\* and a nonzero exit code and no write transaction is submitted.
C25_MintOnlyWithMinterRole ==
  Mint =>
    /\ Writes # {} =>
         /\ cliHasRole = "true"
         /\ \A i \in Writes :
              /\ i > 2
              /\ cliCalls[i].fn = "mint"
              /\ cliCalls[2] = Call("read", "hasRole", MapAddress,
                                    RoleId("MINTER_ROLE"))
    /\ cliHasRole = "false" =>
         /\ Writes = {}
         /\ CliDone
         /\ cliError = "role"
         /\ cliExit >= 1

C25_Witness ==
  /\ Mint
  /\ cliHasRole = "false"
  /\ CliDone
  /\ cliError = "role"
  /\ Len(cliCalls) = 2
  /\ Writes = {}

C25_WitnessMinted ==
  /\ Mint
  /\ cliHasRole = "true"
  /\ Succeeded
  /\ Cardinality(Writes) = 1


(***************************************************************************)
(* A failed distribution.                                                  *)
(***************************************************************************)
\* the transfers that were rejected at submission or failed while awaited
FailedTransfers ==
  {q \in DOMAIN txLog :
     txLog[q].kind = "transfer" /\ txLog[q].status \in {"failed", "rejected"}}

\* the addresses held by the records, the report files and the address map
AddressesKept ==
  {deployments[k].address : k \in DOMAIN deployments}
    \cup UNION {{f.body.deployments[k].address : k \in DOMAIN f.body.deployments}
                : f \in reportFiles}
    \cup {e.address : e \in latestAddresses.entries}

\* C24: after the transfer to holder k of a token failed, the creation of the
\* token and its transfers to holders 1..k-1 are still confirmed, that failed
\* transfer is the last transaction of the token (no later transfer, nothing
\* compensating), and the address of its contract is in no record, no report
\* file and not in the address map.
C24_FailedTransferLeavesContract ==
  \A q \in FailedTransfers :
    LET i == txLog[q].token
        k == txLog[q].holder
    IN  /\ HasTx(i, "create", 0, "confirmed")
        /\ \A h \in 1..(k - 1) : HasTx(i, "transfer", h, "confirmed")
        /\ \A p \in DOMAIN txLog : txLog[p].token = i => p <= q
        /\ CreatePos(txLog, i) \notin AddressesKept

C24_Witness ==
  /\ pc = "done"
  /\ exitCode = 0
  /\ reportWrites = 1
  /\ mapWrites = 1
  /\ \E q \in FailedTransfers :
       /\ txLog[q].holder = 2
       /\ txLog[q].status = "failed"
       /\ \E k \in DOMAIN deployments : deployments[k].def > txLog[q].token


(***************************************************************************)
(* The constructor arguments: estimateGas, deployToken, the deployment     *)
(* record, and encodeConstructorArgs of the verification script.           *)
(***************************************************************************)
\* an optional boolean of tokens.json
Flags == {"true", "false", "absent"}

\* token.mintable || false
OrFalse(flag) == flag = "true"

ArgTokens ==
  {[name |-> "Alpha", symbol |-> "A", decimals |-> d, initialSupply |-> s,
    mintable |-> m, burnable |-> b, pausable |-> p] :
     d \in UnitDecimals, s \in Amounts, m \in Flags,
     b \in {"true", "absent"}, p \in {"true", "false"}}

\* the arguments of getDeployTransaction, lines 506-517
estimateArgs(token) ==
  <<token.name, token.symbol, token.decimals,
    parseUnits(token.initialSupply, token.decimals).digits,
    OrFalse(token.mintable), OrFalse(token.burnable), OrFalse(token.pausable)>>

\* the arguments of factory.deploy, lines 533-547
deployArgs(token) ==
  <<token.name, token.symbol, token.decimals,
    initialSupplyWei(token).digits,
    OrFalse(token.mintable), OrFalse(token.burnable), OrFalse(token.pausable)>>

\* the record of lines 571-583 (the fields the verifier reads)
deploymentInfo(token) ==
  [pushed |-> TRUE, name |-> token.name, symbol |-> token.symbol,
   decimals |-> token.decimals, initialSupply |-> token.initialSupply,
   mintable |-> OrFalse(token.mintable), burnable |-> OrFalse(token.burnable),
   pausable |-> OrFalse(token.pausable)]

\* the constructor of ERC20Token.sol, lines 748-756
ConstructorTypes ==
  <<"string", "string", "uint8", "uint256", "bool", "bool", "bool">>

\* abiCoder.encode(types, values): one typed word group per value, after "0x"
AbiEncode(types, values) ==
  [prefix |-> "0x",
   words |-> [i \in DOMAIN types |-> [type |-> types[i], value |-> values[i]]]]

\* String.prototype.slice(2) of the encoding: drops the "0x"
Slice2(encoded) == [encoded EXCEPT !.prefix = ""]

encodeConstructorArgsUnscaled(deployment) ==
  Slice2(AbiEncode(
    <<"string", "string", "uint8", "uint256", "bool", "bool", "bool">>,
    <<deployment.name, deployment.symbol, deployment.decimals,
      BigInt(deployment.initialSupply.whole),
      deployment.mintable, deployment.burnable, deployment.pausable>>))

\* encodeConstructorArgs, lines 96-113 of verifyContracts.js
encodeConstructorArgs(deployment) ==
  Slice2(AbiEncode(
    <<"string", "string", "uint8", "uint256", "bool", "bool", "bool">>,
    <<deployment.name, deployment.symbol, deployment.decimals,
      parseUnits(deployment.initialSupply, deployment.decimals).digits,
      deployment.mintable, deployment.burnable, deployment.pausable>>))

InitArgs ==
  /\ DeployerIdle
  /\ CliIdle
  /\ VerifierIdle
  /\ UnitsIdle
  /\ aPc = "start"
  /\ aToken \in ArgTokens
  /\ aEstimateArgs = <<>>
  /\ aDeployArgs = <<>>
  /\ aRecord = [pushed |-> FALSE]
  /\ aEncoded = [prefix |-> "", words |-> <<>>]

argInputs == <<aToken, deployerVars, cliVars, verifierVars, unitVars>>

\* deployToken up to the gas estimate; parseUnits throwing ends the token
EstimateGasArgs ==
  /\ aPc = "start"
  /\ UNCHANGED <<argInputs, aDeployArgs, aRecord, aEncoded>>
  /\ IF initialSupplyWei(aToken).ok
     THEN aEstimateArgs' = estimateArgs(aToken) /\ aPc' = "estimated"
     ELSE UNCHANGED aEstimateArgs /\ aPc' = "done"

\* factory.deploy and, when the token is deployed, the push of its record
DeployTokenArgs ==
  /\ aPc = "estimated"
  /\ UNCHANGED <<argInputs, aEstimateArgs, aEncoded>>
  /\ aDeployArgs' = deployArgs(aToken)
  /\ \E ok \in BOOLEAN :
       IF ok THEN aRecord' = deploymentInfo(aToken) /\ aPc' = "recorded"
       ELSE UNCHANGED aRecord /\ aPc' = "done"

\* verifyContract encodes the arguments of the record
EncodeConstructorArgs ==
  /\ aPc = "recorded"
  /\ UNCHANGED <<argInputs, aEstimateArgs, aDeployArgs, aRecord>>
  /\ aEncoded' = encodeConstructorArgs(aRecord)
  /\ aPc' = "encoded"

NextArgs == EstimateGasArgs \/ DeployTokenArgs \/ EncodeConstructorArgs

SpecArgs == InitArgs /\ [][NextArgs]_vars

EncodedValues == [i \in DOMAIN aEncoded.words |-> aEncoded.words[i].value]
EncodedTypes == [i \in DOMAIN aEncoded.words |-> aEncoded.words[i].type]

\* C23: the tuple that the verification script encodes for a record is, in
\* value and order, (name, symbol, decimals, scaled initial supply, mintable,
\* burnable, pausable) as passed to the creation transaction of the token and
\* to its gas estimate, and its types, in order, are those of the constructor
\* the contract declares.
C23_ConstructorArgsAgree ==
  /\ aPc \in {"recorded", "encoded"} =>
       /\ aDeployArgs = aEstimateArgs
       /\ Len(aDeployArgs) = 7
       /\ <<aDeployArgs[1], aDeployArgs[2], aDeployArgs[3]>> =
            <<aToken.name, aToken.symbol, aToken.decimals>>
       /\ Len(aToken.initialSupply.frac) <= aToken.decimals =>
            aDeployArgs[4] = Scaled(aToken.initialSupply, aToken.decimals)
       /\ <<aDeployArgs[5], aDeployArgs[6], aDeployArgs[7]>> =
            <<aToken.mintable = "true", aToken.burnable = "true",
              aToken.pausable = "true">>
  /\ aPc = "encoded" =>
       /\ EncodedValues = aDeployArgs
       /\ EncodedTypes = ConstructorTypes
       /\ aEncoded.prefix = ""

C23_Witness ==
  /\ aPc = "encoded"
  /\ aToken.decimals = 18
  /\ aToken.initialSupply = [whole |-> <<1, 0>>, frac |-> <<9>>]
  /\ aToken.mintable = "absent"
  /\ EncodedValues =
       <<"Alpha", "A", 18, <<1, 0, 9>> \o Zeros(17), FALSE, TRUE, TRUE>>

====
